---------------------------- MODULE Spec2Model ----------------------------
(***************************************************************************)
(* The chat application's Controller (server/src/controller/Controller.js) *)
(* as a state machine.  Every public operation is an async function: it    *)
(* runs synchronously up to its next await of a ChatDAO call, the DAO call *)
(* takes effect on the store at some later step, and the continuation      *)
(* resumes at a still later step.  Several calls may be in flight at once  *)
(* (single-threaded cooperative scheduling), and the wall clock advances   *)
(* between any two steps.  Time is counted in hours.                       *)
(***************************************************************************)
EXTENDS Integers, Sequences, FiniteSets, TLC

(* ------------------------------ bounds --------------------------------- *)

\* The wall clock stops advancing here.
MaxClock == 36

\* The store assigns at most this many message ids.
MaxMsgs == 2

\* Amounts, in hours, by which the wall clock advances in one step.
ClockSteps == {12, 24}

\* The calls that may be in flight at the same time.
Calls == {1, 2}

\* The one call in flight when the caller awaits each call before the next.
Sequential == {1}

(* --------------------------- JS values --------------------------------- *)

Null == [type |-> "null"]

Undefined == [type |-> "undefined"]

Date(ms) == [type |-> "Date", ms |-> ms]

UserDTO(username, loggedInUntil) ==
  [type |-> "UserDTO", username |-> username, loggedInUntil |-> loggedInUntil]

MsgDTO(id, msg, author) ==
  [type |-> "MsgDTO", id |-> id, msg |-> msg, author |-> author]

Array(items) == [type |-> "Array", items |-> items]

ValidationError == [type |-> "ValidationError"]

PersistenceError == [type |-> "PersistenceError"]

\* The promise of a call that has not settled yet.
Pending == [type |-> "pending"]

\* Strings are sequences of characters.
AlnumChars == {"a", "b", "c"}

(* ------------------------------ inputs --------------------------------- *)

\* The usernames that are rows of the user table.
StoredUsernames == {<<"a">>, <<"b">>}

\* Usernames callers pass: stored, valid but not stored, empty, not alphanumeric.
UsernameInputs == StoredUsernames \cup {<<"c">>, <<>>, <<"a", "!">>}

\* Message texts callers pass: the empty one is invalid.
MsgInputs == {<<>>, <<"h", "i">>, <<"x">>}

\* Authors callers pass: a UserDTO and a plain object that is none.
AuthorInputs ==
  {UserDTO(<<"a">>, Null), [type |-> "Object", username |-> <<"a">>]}

\* Message ids callers pass: not positive, assigned, never assigned.
MsgIdInputs == -1 .. (MaxMsgs + 1)

(* ------------------------------ state ---------------------------------- *)

VARIABLES
  contr,    \* createController: "none", "createTables", "resolved", "rejected",
            \* "ready" (a controller was returned), "failed" (it threw)
  now,      \* the wall clock, in hours
  users,    \* the store's user table: username -> loggedInUntil (Null or a Date)
  msgs,     \* the store's message table: the MsgDTOs in insertion order
  nextId,   \* the id the store assigns to the next message
  op,       \* per call: the operation, "idle" when there is none
  arg,      \* per call: the tuple of arguments
  pc,       \* per call: "idle", the line of the await it is suspended at
            \* ("L45", ...), or "done"
  dao,      \* per call: the DAO call awaited: status, call, args, value
  result,   \* per call: what the operation returned or threw, Pending before
  started,  \* history, per call: the wall clock when the operation was called
  live,     \* history: the messages addMsg returned, as its caller passed
            \* them, until a deleteMsg of the id is called
  gone,     \* history: the ids a deleteMsg has returned for
  deleteCalled  \* history: deleteMsg was called with a valid id

store == <<users, msgs, nextId>>

calls == <<op, arg, pc, dao, result, started>>

history == <<live, gone, deleteCalled>>

vars == <<contr, now, store, calls, history>>

NoDao == [status |-> "none", call |-> "none", args |-> <<>>, value |-> Null]

Request(method, args) ==
  [status |-> "pending", call |-> method, args |-> args, value |-> Null]

Init ==
  /\ contr = "none"
  /\ now = 0
  /\ users = [u \in StoredUsernames |-> Null]
  /\ msgs = <<>>
  /\ nextId = 1
  /\ op = [p \in Calls |-> "idle"]
  /\ arg = [p \in Calls |-> <<>>]
  /\ pc = [p \in Calls |-> "idle"]
  /\ dao = [p \in Calls |-> NoDao]
  /\ result = [p \in Calls |-> Pending]
  /\ started = [p \in Calls |-> 0]
  /\ live = {}
  /\ gone = {}
  /\ deleteCalled = FALSE

(* ----------------------------- Validators ------------------------------ *)

isNonZeroLengthString(value) == Len(value) > 0

isAlnumString(value) == \A i \in 1 .. Len(value) : value[i] \in AlnumChars

isInstanceOfUserDTO(value) == value.type = "UserDTO"

isPositiveInteger(value) == value \in Int /\ value > 0

(* ------------------------------- moment -------------------------------- *)

\* moment(x): the moment of a Date; moment(null) is an invalid moment.
moment(x) ==
  IF x.type = "Date" THEN [type |-> "Moment", valid |-> TRUE, ms |-> x.ms]
  ELSE [type |-> "Moment", valid |-> FALSE, ms |-> 0]

\* a.isBefore(b): strictly earlier; false when either moment is invalid.
isBefore(a, b) == a.valid /\ b.valid /\ a.ms < b.ms

\* moment(): the wall clock.
momentNow == [type |-> "Moment", valid |-> TRUE, ms |-> now]

(* ------------------------------ ChatDAO -------------------------------- *)

\* The rows findUserByUsername selects: a list with the user, or the empty list.
SelectUser(username) ==
  IF username \in DOMAIN users
    THEN <<UserDTO(username, users[username])>>
    ELSE <<>>

\* The rows of the message table with this id.
SelectMsg(id) == SelectSeq(msgs, LAMBDA m : m.id = id)

\* createTables takes effect and resolves.
chatDAO_createTables ==
  /\ contr = "createTables"
  /\ contr' = "resolved"
  /\ UNCHANGED <<now, store, calls, history>>

\* createTables fails: the promise is rejected.
chatDAO_createTablesFails ==
  /\ contr = "createTables"
  /\ contr' = "rejected"
  /\ UNCHANGED <<now, store, calls, history>>

\* The DAO call p awaits takes effect and resolves with value.
Resolve(p, method, value) ==
  /\ dao[p].status = "pending"
  /\ dao[p].call = method
  /\ dao' = [dao EXCEPT ![p].status = "resolved", ![p].value = value]
  /\ UNCHANGED <<contr, now, op, arg, pc, result, started>>

\* findUserByUsername reads the user table and resolves with the rows.
chatDAO_findUserByUsername(p) ==
  /\ Resolve(p, "findUserByUsername", Array(SelectUser(dao[p].args[1])))
  /\ UNCHANGED <<store, history>>

\* updateUser writes the user's row and resolves.
chatDAO_updateUser(p) ==
  /\ Resolve(p, "updateUser", Undefined)
  /\ LET user == dao[p].args[1] IN
       users' = [users EXCEPT ![user.username] = user.loggedInUntil]
  /\ UNCHANGED <<msgs, nextId, history>>

\* createMsg inserts a row under the next id and resolves with the message.
chatDAO_createMsg(p) ==
  /\ nextId <= MaxMsgs
  /\ LET created == MsgDTO(nextId, dao[p].args[1], dao[p].args[2]) IN
       /\ Resolve(p, "createMsg", created)
       /\ msgs' = Append(msgs, created)
  /\ nextId' = nextId + 1
  /\ gone' = gone \ {nextId}
  /\ UNCHANGED <<users, live, deleteCalled>>

\* findMsgById resolves with the row of that id, or with null.
chatDAO_findMsgById(p) ==
  /\ LET rows == SelectMsg(dao[p].args[1]) IN
       Resolve(p, "findMsgById", IF Len(rows) = 0 THEN Null ELSE rows[1])
  /\ UNCHANGED <<store, history>>

\* findAllMsgs resolves with every row, in insertion order.
chatDAO_findAllMsgs(p) ==
  /\ Resolve(p, "findAllMsgs", Array(msgs))
  /\ UNCHANGED <<store, history>>

\* deleteMsg removes the row of that id, if there is one, and resolves.
chatDAO_deleteMsg(p) ==
  /\ Resolve(p, "deleteMsg", Undefined)
  /\ msgs' = SelectSeq(msgs, LAMBDA m : m.id # dao[p].args[1])
  /\ UNCHANGED <<users, nextId, history>>

\* Any DAO call may fail instead: the store is untouched, the promise rejected.
chatDAO_fails(p) ==
  /\ dao[p].status = "pending"
  /\ dao' = [dao EXCEPT ![p].status = "rejected"]
  /\ UNCHANGED <<contr, now, store, op, arg, pc, result, started, history>>

(* ---------------------- Controller: construction ----------------------- *)

\* createController up to its await of createTables.
createController ==
  /\ contr \in {"none", "failed"}
  /\ contr' = "createTables"
  /\ UNCHANGED <<now, store, calls, history>>

\* What createController does once createTables has settled: it returns the
\* controller, or the rejection propagates and no controller is returned.
createControllerOutcome(settled) ==
  IF settled = "resolved" THEN "ready" ELSE "failed"

createControllerResumes ==
  /\ contr \in {"resolved", "rejected"}
  /\ contr' = createControllerOutcome(contr)
  /\ UNCHANGED <<now, store, calls, history>>

(* ------------------------ Controller: calls ---------------------------- *)

\* An operation is called on the controller: it throws a validation failure
\* at once, or runs up to the await of its first DAO call.
Invoke(p, operation, args, valid, line, method, request) ==
  /\ contr = "ready"
  /\ pc[p] = "idle"
  /\ op' = [op EXCEPT ![p] = operation]
  /\ arg' = [arg EXCEPT ![p] = args]
  /\ started' = [started EXCEPT ![p] = now]
  /\ IF valid
       THEN /\ pc' = [pc EXCEPT ![p] = line]
            /\ dao' = [dao EXCEPT ![p] = Request(method, request)]
            /\ UNCHANGED result
       ELSE /\ pc' = [pc EXCEPT ![p] = "done"]
            /\ result' = [result EXCEPT ![p] = ValidationError]
            /\ UNCHANGED dao
  /\ UNCHANGED <<contr, now, store>>

\* The operation returns (or throws) value.
Settle(p, value) ==
  /\ pc' = [pc EXCEPT ![p] = "done"]
  /\ result' = [result EXCEPT ![p] = value]

\* The operation returns (or throws) value; it calls the DAO no more.
Finish(p, value) ==
  /\ Settle(p, value)
  /\ UNCHANGED <<contr, now, store, op, arg, dao, started>>

\* p resumes after the DAO call it awaited at this line has resolved.
Resumes(p, line) ==
  /\ pc[p] = line
  /\ dao[p].status = "resolved"

\* As OnRejection, had the operation caught the rejection and returned null.
OnRejectionCaught(p) == Finish(p, Null)

\* What an operation does with the rejection of a DAO call it awaited:
\* nothing catches it, so the operation throws it.
OnRejection(p) == Finish(p, PersistenceError)

Rejected(p) ==
  /\ pc[p] \notin {"idle", "done"}
  /\ dao[p].status = "rejected"
  /\ OnRejection(p)
  /\ UNCHANGED history

\* The caller takes the settled promise; the slot is free for another call.
Return(p) ==
  /\ pc[p] = "done"
  /\ op' = [op EXCEPT ![p] = "idle"]
  /\ arg' = [arg EXCEPT ![p] = <<>>]
  /\ pc' = [pc EXCEPT ![p] = "idle"]
  /\ dao' = [dao EXCEPT ![p] = NoDao]
  /\ result' = [result EXCEPT ![p] = Pending]
  /\ started' = [started EXCEPT ![p] = 0]
  /\ UNCHANGED <<contr, now, store, history>>

\* The wall clock advances.
Tick ==
  /\ \E d \in ClockSteps :
       /\ now + d <= MaxClock
       /\ now' = now + d
  /\ UNCHANGED <<contr, store, calls, history>>

(* ------------------- Controller: login, isLoggedIn --------------------- *)

\* As usernameIsValid, without the isAlnumString of lines 44 and 66.
usernameIsNotEmpty(username) == isNonZeroLengthString(username)

\* Lines 43-44 and 65-66: the username passes both validators.
usernameIsValid(username) ==
  isNonZeroLengthString(username) /\ isAlnumString(username)

login(p) ==
  /\ \E username \in UsernameInputs :
       Invoke(p, "login", <<username>>, usernameIsValid(username),
              "L45", "findUserByUsername", <<username>>)
  /\ UNCHANGED history

periodToStayLoggedIn == 24

\* As setUsersStatusToLoggedIn, had line 138 left the period out.
setUsersStatusToLoggedInNow(user) ==
  [user EXCEPT !.loggedInUntil = Date(momentNow.ms)]

\* The user as setUsersStatusToLoggedIn changes it before it calls updateUser.
setUsersStatusToLoggedIn(user) ==
  [user EXCEPT !.loggedInUntil = Date(momentNow.ms + periodToStayLoggedIn)]

\* As loginNoSuchUser, without the test of line 46: users[0] is undefined and
\* setUsersStatusToLoggedIn throws on it.
loginNoSuchUserUnchecked(p) == Finish(p, [type |-> "TypeError"])

\* login once findUserByUsername has resolved with no rows.
loginNoSuchUser(p) == Finish(p, Null)

\* As loginFoundUser, without the await of line 50: login returns the user
\* while updateUser is still in flight.
loginFoundUserNotAwaited(p, loggedInUser) ==
  /\ dao' = [dao EXCEPT ![p] =
       Request("updateUser", <<setUsersStatusToLoggedIn(loggedInUser)>>)]
  /\ Settle(p, setUsersStatusToLoggedIn(loggedInUser))
  /\ UNCHANGED <<contr, now, store, op, arg, started>>

\* login once findUserByUsername has resolved with the user: it changes the
\* user and awaits updateUser.
loginFoundUser(p, loggedInUser) ==
  /\ pc' = [pc EXCEPT ![p] = "L50"]
  /\ dao' = [dao EXCEPT ![p] =
       Request("updateUser", <<setUsersStatusToLoggedIn(loggedInUser)>>)]
  /\ UNCHANGED <<contr, now, store, op, arg, result, started>>

loginFound(p) ==
  /\ Resumes(p, "L45")
  /\ LET found == dao[p].value.items IN
       IF Len(found) = 0
         THEN loginNoSuchUser(p)
         ELSE loginFoundUser(p, found[1])
  /\ UNCHANGED history

\* login once updateUser has resolved: it returns the user it changed.
loginUpdated(p) ==
  /\ Resumes(p, "L50")
  /\ Finish(p, dao[p].args[1])
  /\ UNCHANGED history

isLoggedIn(p) ==
  /\ \E username \in UsernameInputs :
       Invoke(p, "isLoggedIn", <<username>>, usernameIsValid(username),
              "L67", "findUserByUsername", <<username>>)
  /\ UNCHANGED history

\* As loginHasExpired, had line 77 used isSameOrBefore: expired at the
\* instant of expiry too.
loginHasExpiredOrExpiresNow(loginExpires, current) ==
  loginExpires.valid /\ current.valid /\ loginExpires.ms <= current.ms

\* The test of line 77: the login has expired.
loginHasExpired(loginExpires, current) == isBefore(loginExpires, current)

\* What isLoggedIn returns for the rows findUserByUsername resolved with.
isLoggedInResult(found) ==
  IF Len(found) = 0 THEN Null
  ELSE LET loggedInUser == found[1]
           loginExpires == moment(loggedInUser.loggedInUntil)
       IN  IF loginExpires = Null THEN Null
           ELSE IF loginHasExpired(loginExpires, momentNow) THEN Null
           ELSE loggedInUser

\* isLoggedIn once findUserByUsername has resolved.
isLoggedInFound(p) ==
  /\ Resumes(p, "L67")
  /\ Finish(p, isLoggedInResult(dao[p].value.items))
  /\ UNCHANGED history

(* ----------------------- Controller: messages -------------------------- *)

\* Lines 92-93: the message and the author pass their validators.
addMsgArgsAreValid(msg, author) ==
  isNonZeroLengthString(msg) /\ isInstanceOfUserDTO(author)

\* As addMsgRequest, had line 94 passed the message alone.
addMsgRequestWithoutAuthor(msg, author) == <<msg, Undefined>>

\* Line 94: what addMsg passes to createMsg.
addMsgRequest(msg, author) == <<msg, author>>

addMsg(p) ==
  /\ nextId <= MaxMsgs
  /\ \E msg \in MsgInputs, author \in AuthorInputs :
       Invoke(p, "addMsg", <<msg, author>>, addMsgArgsAreValid(msg, author),
              "L94", "createMsg", addMsgRequest(msg, author))
  /\ UNCHANGED history

\* addMsg once createMsg has resolved: it returns the created message.
addMsgCreated(p) ==
  /\ Resumes(p, "L94")
  /\ Finish(p, dao[p].value)
  /\ live' = live \cup {MsgDTO(dao[p].value.id, arg[p][1], arg[p][2])}
  /\ UNCHANGED <<gone, deleteCalled>>

\* Lines 106 and 128: the id passes its validator.
msgIdIsValid(msgId) == isPositiveInteger(msgId)

findMsg(p) ==
  /\ \E msgId \in MsgIdInputs :
       Invoke(p, "findMsg", <<msgId>>, msgIdIsValid(msgId),
              "L107", "findMsgById", <<msgId>>)
  /\ UNCHANGED history

\* findMsg once findMsgById has resolved: it returns the message or null.
findMsgFound(p) ==
  /\ Resumes(p, "L107")
  /\ Finish(p, dao[p].value)
  /\ UNCHANGED history

findAllMsgs(p) ==
  /\ Invoke(p, "findAllMsgs", <<>>, TRUE, "L118", "findAllMsgs", <<>>)
  /\ UNCHANGED history

\* As findAllMsgsReturns, had line 118 kept the first row only (as login does
\* with users[0]).
findAllMsgsReturnsFirst(rows) ==
  Array(SubSeq(rows.items, 1, IF Len(rows.items) = 0 THEN 0 ELSE 1))

\* Line 118: what findAllMsgs returns of the rows the DAO resolved with.
findAllMsgsReturns(rows) == rows

\* findAllMsgs once the DAO's findAllMsgs has resolved.
findAllMsgsFound(p) ==
  /\ Resumes(p, "L118")
  /\ Finish(p, findAllMsgsReturns(dao[p].value))
  /\ UNCHANGED history

\* As deleteMsgMethod, had line 129 been copied from findMsg unchanged.
deleteMsgCallsFindMsgById == "findMsgById"

\* Line 129: the DAO method deleteMsg calls.
deleteMsgMethod == "deleteMsg"

deleteMsg(p) ==
  /\ \E msgId \in MsgIdInputs :
       /\ Invoke(p, "deleteMsg", <<msgId>>, msgIdIsValid(msgId),
                 "L129", deleteMsgMethod, <<msgId>>)
       /\ live' = {m \in live : isPositiveInteger(msgId) => m.id # msgId}
       /\ deleteCalled' = (deleteCalled \/ isPositiveInteger(msgId))
  /\ UNCHANGED gone

\* deleteMsg once the DAO's deleteMsg has resolved: it returns nothing.
deleteMsgDeleted(p) ==
  /\ Resumes(p, "L129")
  /\ Finish(p, Undefined)
  /\ gone' = gone \cup {arg[p][1]}
  /\ UNCHANGED <<live, deleteCalled>>

(* --------------------------- specifications ---------------------------- *)

\* The steps of createController and of the DAO's createTables.
Construction ==
  \/ createController
  \/ chatDAO_createTables
  \/ chatDAO_createTablesFails
  \/ createControllerResumes

\* Every operation, with the caller awaiting each call before it makes the
\* next, all within one reading of the wall clock.
Next ==
  \/ Construction
  \/ \E p \in Sequential :
       \/ login(p)
       \/ loginFound(p)
       \/ loginUpdated(p)
       \/ isLoggedIn(p)
       \/ isLoggedInFound(p)
       \/ addMsg(p)
       \/ addMsgCreated(p)
       \/ findMsg(p)
       \/ findMsgFound(p)
       \/ findAllMsgs(p)
       \/ findAllMsgsFound(p)
       \/ deleteMsg(p)
       \/ deleteMsgDeleted(p)
       \/ chatDAO_findUserByUsername(p)
       \/ chatDAO_updateUser(p)
       \/ chatDAO_createMsg(p)
       \/ chatDAO_findMsgById(p)
       \/ chatDAO_findAllMsgs(p)
       \/ chatDAO_deleteMsg(p)
       \/ chatDAO_fails(p)
       \/ Rejected(p)
       \/ Return(p)

Spec == Init /\ [][Next]_vars

\* Calls of login and isLoggedIn overlap while the wall clock advances: each
\* suspends at its awaits, and the DAO calls in flight take effect in any order.
NextConcurrent ==
  \/ Construction
  \/ Tick
  \/ \E p \in Calls :
       \/ login(p)
       \/ loginFound(p)
       \/ loginUpdated(p)
       \/ isLoggedIn(p)
       \/ isLoggedInFound(p)
       \/ chatDAO_findUserByUsername(p)
       \/ chatDAO_updateUser(p)
       \/ chatDAO_fails(p)
       \/ Rejected(p)
       \/ Return(p)

SpecConcurrent == Init /\ [][NextConcurrent]_vars

(* ------------------------ sessions: the claims ------------------------- *)

\* The username a call of login or isLoggedIn passes is one the validators
\* accept.
PassesValidUsername(args) ==
  isNonZeroLengthString(args[1]) /\ isAlnumString(args[1])

\* In this step isLoggedIn checks a user row whose loggedInUntil is a Date:
\* it resumes with the row findUserByUsername found and returns.
ChecksExpiry(p) ==
  /\ op[p] = "isLoggedIn"
  /\ pc[p] = "L67"
  /\ pc'[p] = "done"
  /\ dao[p].status = "resolved"
  /\ Len(dao[p].value.items) = 1
  /\ dao[p].value.items[1].loggedInUntil.type = "Date"

\* The user row isLoggedIn checks.
Checked(p) == dao[p].value.items[1]

\* C1 as stated: isLoggedIn returns the user iff the loggedInUntil it read is
\* strictly after the clock at the moment of the check, and returns null when
\* loggedInUntil equals the clock or is earlier.
C1_StrictlyAfter ==
  [][\A p \in Calls :
       ChecksExpiry(p) =>
         /\ (result'[p] = Checked(p)) <=> (Checked(p).loggedInUntil.ms > now)
         /\ (result'[p] = Null) <=> (Checked(p).loggedInUntil.ms <= now)]_vars

\* C1 as amended: isLoggedIn returns the user iff the loggedInUntil it read is
\* not before the clock at the moment of the check (at the instant of expiry
\* the user still counts as logged in), and returns null iff it is strictly
\* before the clock.
C1_NotBefore ==
  [][\A p \in Calls :
       ChecksExpiry(p) =>
         /\ (result'[p] = Checked(p)) <=> (Checked(p).loggedInUntil.ms >= now)
         /\ (result'[p] = Null) <=> (Checked(p).loggedInUntil.ms < now)]_vars

\* isLoggedIn has returned a user whose loggedInUntil is the present instant.
C1_Witness ==
  \E p \in Calls :
    /\ op[p] = "isLoggedIn"
    /\ pc[p] = "done"
    /\ result[p].type = "UserDTO"
    /\ result[p].loggedInUntil = Date(now)

\* C2: for a user row whose loggedInUntil is null (the user never logged in),
\* isLoggedIn returns null.
C2_NeverLoggedInIsNull ==
  \A p \in Calls :
    ( /\ op[p] = "isLoggedIn"
      /\ pc[p] = "done"
      /\ dao[p].status = "resolved"
      /\ Len(dao[p].value.items) = 1
      /\ dao[p].value.items[1].loggedInUntil = Null )
    => result[p] = Null

\* C3: a login of a stored username that completes without a DAO failure
\* returns that user, with loggedInUntil 24 hours after a clock reading taken
\* during the call, having awaited the updateUser of exactly that user; and
\* when that updateUser takes effect it writes this loggedInUntil into the
\* user's row and leaves every other row alone.
C3_LoginExtendsAndPersists ==
  [][\A p \in Calls :
       /\ ( /\ op'[p] = "login"
            /\ pc'[p] = "done"
            /\ PassesValidUsername(arg'[p])
            /\ arg'[p][1] \in DOMAIN users'
            /\ dao'[p].status # "rejected" )
          => /\ result'[p].type = "UserDTO"
             /\ result'[p].username = arg'[p][1]
             /\ result'[p].loggedInUntil.type = "Date"
             /\ result'[p].loggedInUntil.ms >= started'[p] + 24
             /\ result'[p].loggedInUntil.ms <= now' + 24
             /\ dao'[p] = [status |-> "resolved", call |-> "updateUser",
                           args |-> <<result'[p]>>, value |-> Undefined]
       /\ ( /\ op[p] = "login"
            /\ pc[p] = "L50"
            /\ dao[p].status = "pending"
            /\ dao'[p].status = "resolved" )
          => /\ dao[p].args[1].username = arg[p][1]
             /\ dao[p].args[1].loggedInUntil.ms >= started[p] + 24
             /\ dao[p].args[1].loggedInUntil.ms <= now + 24
             /\ users' = [users EXCEPT ![arg[p][1]] =
                            dao[p].args[1].loggedInUntil]]_vars

\* login has returned a user whose loggedInUntil, read from a clock that had
\* advanced since the call, is the one in the user's row.
C3_Witness ==
  \E p \in Calls :
    /\ op[p] = "login"
    /\ pc[p] = "done"
    /\ result[p].type = "UserDTO"
    /\ result[p].loggedInUntil.ms > started[p] + 24
    /\ users[arg[p][1]] = result[p].loggedInUntil

\* C4: for a valid username that is not stored, login and isLoggedIn return
\* null once the lookup has resolved, no step of the call changes the user
\* table, and the call never awaits updateUser.
C4_UnknownUserIsNull ==
  [][\A p \in Calls :
       ( /\ op'[p] \in {"login", "isLoggedIn"}
         /\ PassesValidUsername(arg'[p])
         /\ arg'[p][1] \notin DOMAIN users )
       => /\ dao'[p].call # "updateUser"
          /\ (pc'[p] # pc[p] \/ dao'[p] # dao[p]) => users' = users
          /\ (pc'[p] = "done" /\ dao'[p].status # "rejected")
               => /\ result'[p] = Null
                  /\ dao'[p].status = "resolved"
                  /\ dao'[p].call = "findUserByUsername"]_vars

\* login and isLoggedIn of a username that is not stored have both returned
\* null.
C4_Witness ==
  \E p, q \in Calls :
    /\ op[p] = "login" /\ op[q] = "isLoggedIn"
    /\ pc[p] = "done" /\ pc[q] = "done"
    /\ arg[p] = << <<"c">> >> /\ arg[q] = << <<"c">> >>
    /\ result[p] = Null /\ result[q] = Null

(* ------------------ validation and failures: the claims ---------------- *)

\* The arguments of a call are ones a validator of the operation rejects.
ArgsAreInvalid(operation, args) ==
  CASE operation \in {"login", "isLoggedIn"} ->
         ~(isNonZeroLengthString(args[1]) /\ isAlnumString(args[1]))
    [] operation = "addMsg" ->
         ~(isNonZeroLengthString(args[1]) /\ isInstanceOfUserDTO(args[2]))
    [] operation \in {"findMsg", "deleteMsg"} ->
         ~isPositiveInteger(args[1])
    [] OTHER -> FALSE

\* C5: a call with an invalid argument throws a validation failure in the
\* step that makes it, with no DAO call issued and the store as it was; and
\* nothing is issued or changed while that failure waits to be taken.
C5_InvalidArgsThrowBeforeAnyDaoCall ==
  [][\A p \in Calls :
       /\ (pc[p] = "idle" /\ pc'[p] # "idle"
             /\ ArgsAreInvalid(op'[p], arg'[p]))
          => /\ pc'[p] = "done"
             /\ result'[p] = ValidationError
             /\ dao'[p] = NoDao
             /\ store' = store
       /\ (pc[p] = "done" /\ result[p] = ValidationError)
          => /\ dao[p] = NoDao
             /\ dao'[p] = NoDao
             /\ store' = store]_vars

\* addMsg has thrown a validation failure for an author that is no UserDTO.
C5_Witness ==
  \E p \in Calls :
    /\ op[p] = "addMsg"
    /\ pc[p] = "done"
    /\ isNonZeroLengthString(arg[p][1])
    /\ ~isInstanceOfUserDTO(arg[p][2])
    /\ result[p] = ValidationError
    /\ dao[p] = NoDao

\* C9: once a DAO call an operation awaits is rejected, the operation's only
\* step is to throw that failure: it returns nothing else, issues no other
\* DAO call and leaves the store alone; and createController returns a
\* controller only when createTables resolved, and fails when it was rejected.
C9_DaoFailurePropagates ==
  [][/\ \A p \in Calls :
          dao[p].status = "rejected" =>
            /\ store' = store
            /\ IF pc[p] # "done"
                 THEN \/ /\ pc'[p] = "done"
                         /\ result'[p] = PersistenceError
                         /\ dao'[p] = dao[p]
                      \/ /\ pc'[p] = pc[p]
                         /\ result'[p] = result[p]
                         /\ dao'[p] = dao[p]
                 ELSE /\ result[p] = PersistenceError
                      /\ dao'[p] = dao[p] \/ pc'[p] = "idle"
     /\ contr = "rejected" => contr' = "failed"
     /\ (contr' = "ready" /\ contr # "ready") => contr = "resolved"]_vars

\* login has thrown the failure of its updateUser.
C9_Witness ==
  \E p \in Calls :
    /\ op[p] = "login"
    /\ pc[p] = "done"
    /\ dao[p].call = "updateUser"
    /\ dao[p].status = "rejected"
    /\ result[p] = PersistenceError

(* ------------------------ messages: the claims ------------------------- *)

\* C6: addMsg of a non-empty text and a UserDTO returns, unless createMsg
\* fails, a message with an id the store assigned and that text and author;
\* and findMsg of the id of a message addMsg returned, with no deleteMsg of
\* that id called since, returns the message with the text and the author
\* addMsg was called with.
C6_FindAfterAdd ==
  \A p \in Calls :
    /\ ( /\ op[p] = "addMsg"
         /\ pc[p] = "done"
         /\ ~ArgsAreInvalid("addMsg", arg[p])
         /\ dao[p].status # "rejected" )
       => /\ result[p].type = "MsgDTO"
          /\ result[p].id \in 1 .. (nextId - 1)
          /\ result[p].msg = arg[p][1]
          /\ result[p].author = arg[p][2]
    /\ (op[p] = "findMsg" /\ pc[p] = "done" /\ dao[p].status = "resolved")
       => \A m \in live : m.id = arg[p][1] => result[p] = m

\* findMsg has returned a message addMsg returned before.
C6_Witness ==
  \E p \in Calls :
    /\ op[p] = "findMsg"
    /\ pc[p] = "done"
    /\ result[p] \in live

\* C7: findMsg of an id for which deleteMsg has returned (and which the store
\* has not assigned since) returns null; a deleteMsg that completes returns
\* nothing, raises no error and leaves no message of its id; and a deleteMsg
\* of an id that is not stored changes no stored message.
C7_DeleteThenFindIsNull ==
  [][\A p \in Calls :
       /\ ( /\ op'[p] = "findMsg"
            /\ pc'[p] = "done"
            /\ dao'[p].status = "resolved"
            /\ arg'[p][1] \in gone' )
          => result'[p] = Null
       /\ (op'[p] = "deleteMsg" /\ isPositiveInteger(arg'[p][1]))
          => /\ Len(SelectMsg(arg'[p][1])) = 0 => msgs' = msgs
             /\ (pc'[p] = "done" /\ dao'[p].status # "rejected")
                  => /\ result'[p] = Undefined
                     /\ dao'[p].status = "resolved"
                     /\ \A i \in 1 .. Len(msgs') :
                          msgs'[i].id # arg'[p][1]]_vars

\* findMsg has returned null for the id of a message that was stored and then
\* deleted.
C7_Witness ==
  \E p \in Calls :
    /\ op[p] = "findMsg"
    /\ pc[p] = "done"
    /\ arg[p][1] \in gone
    /\ arg[p][1] < nextId
    /\ result[p] = Null

\* C8: while no deleteMsg has been called, findAllMsgs returns exactly the
\* messages the successful addMsg calls returned, one entry each, with
\* distinct ids: none on an empty store, N after N addMsg.
C8_FindAllReturnsEveryAdded ==
  \A p \in Calls :
    ( /\ op[p] = "findAllMsgs"
      /\ pc[p] = "done"
      /\ dao[p].status = "resolved"
      /\ ~deleteCalled )
    => /\ result[p].type = "Array"
       /\ Len(result[p].items) = Cardinality(live)
       /\ {result[p].items[i] : i \in 1 .. Len(result[p].items)} = live
       /\ \A i, j \in 1 .. Len(result[p].items) :
            result[p].items[i].id = result[p].items[j].id => i = j

\* findAllMsgs has returned two messages after two addMsg and no deleteMsg.
C8_Witness ==
  \E p \in Calls :
    /\ op[p] = "findAllMsgs"
    /\ pc[p] = "done"
    /\ ~deleteCalled
    /\ result[p].type = "Array"
    /\ Len(result[p].items) = 2
    /\ Cardinality(live) = 2

(* ---------------------- session status: the claims --------------------- *)

\* C10 as stated: under any interleaving of the operations, no step lowers a
\* user's stored loggedInUntil (or takes it away).
C10_NeverLowered ==
  [][\A u \in DOMAIN users :
       users[u].type = "Date"
       => /\ users'[u].type = "Date"
          /\ users'[u].ms >= users[u].ms]_vars

\* C10 as amended: a user's stored loggedInUntil changes only in the step in
\* which the updateUser of a login of that user takes effect, and it becomes
\* a Date 24 hours after a clock reading taken during that login (whatever
\* the value stored before, which may be later).
C10_OnlyLoginWrites ==
  [][\A u \in DOMAIN users :
       users'[u] # users[u]
       => \E p \in Calls :
            /\ op[p] = "login"
            /\ arg[p] = <<u>>
            /\ pc[p] = "L50"
            /\ dao[p].status = "pending"
            /\ dao'[p].status = "resolved"
            /\ users'[u].type = "Date"
            /\ users'[u].ms >= started[p] + 24
            /\ users'[u].ms <= now + 24]_vars

\* Two overlapping logins of one user have both had their updateUser applied,
\* and the row holds the earlier of the two loggedInUntil: the later one was
\* stored first and then lowered.
C10_Witness ==
  \E p, q \in Calls :
    /\ p # q
    /\ op[p] = "login" /\ op[q] = "login"
    /\ arg[p] = arg[q]
    /\ dao[p].call = "updateUser" /\ dao[p].status = "resolved"
    /\ dao[q].call = "updateUser" /\ dao[q].status = "resolved"
    /\ dao[p].args[1].loggedInUntil.ms < dao[q].args[1].loggedInUntil.ms
    /\ users[arg[p][1]] = dao[p].args[1].loggedInUntil

=============================================================================
